---- MODULE Spec2Model ----
(***************************************************************************)
(* Model of AirGradient_Grafana.ino: setup() and loop() of the sketch, the *)
(* display helper showTextRectangle, connectToWifi and PM_TO_AQI_US.       *)
(*                                                                         *)
(* Floats (temperature, humidity) are carried as integers in hundredths,   *)
(* which is the precision String(float) and Point::addField(float) keep.   *)
(* The external collaborators (sensor drivers, WiFiManager, InfluxDB       *)
(* client, SSD1306 display) are modelled by the values they return, drawn  *)
(* nondeterministically, and by the calls the sketch makes to them, which  *)
(* are logged in the history variable trace.                               *)
(***************************************************************************)
EXTENDS Integers, Sequences, FiniteSets, TLC

VARIABLES
  hasPM, hasCO2, hasSHT, hasTVOC,   \* lines 53-56, active capabilities
  inUSaqi, inF, tempOffsetC,        \* lines 58-61, unit preferences
  connectWIFI, displayData,         \* lines 63-64
  pc,                               \* position in setup() / loop()
  fields,                           \* influxPoint: field name -> value
  displayOn,                        \* power state of the SSD1306 display
  dispOps,                          \* display driver calls issued since boot
  screen,                           \* what the display buffer shows
  trace,                            \* history: calls since boot / cycle start
  written,                          \* history: records handed to writePoint
  last                              \* history: outcome of the previous cycle

config == <<hasPM, hasCO2, hasSHT, hasTVOC, inUSaqi, inF, tempOffsetC,
            connectWIFI, displayData>>
vars == <<hasPM, hasCO2, hasSHT, hasTVOC, inUSaqi, inF, tempOffsetC,
          connectWIFI, displayData, pc, fields, displayOn, dispOps, screen,
          trace, written, last>>

----------------------------------------------------------------------------
(* Bounds and input sets *)

MaxCO2 == 1
MaxTVOC == 1

PMReadings == {0, 40}
CO2Readings == -1 .. MaxCO2
TVOCReadings == 0 .. MaxTVOC
TempReadings == {2000, 2155}       \* hundredths of a degree Celsius
RhReadings == {4500}               \* hundredths of a percent
TempOffsets == {0, -150}           \* hundredths of a degree Celsius

PerReadingDelayMs == 3000
SleepDelayMs == 48000
GraceDelayMs == 3000
SettleDelayMs == 2000

----------------------------------------------------------------------------
(* Pure helpers *)

\* C++ conversion of a double to int: truncation toward zero of a / b, b > 0
TruncDiv(a, b) == IF a >= 0 THEN a \div b ELSE -((-a) \div b)

\* the breakpoint bands of PM_TO_AQI_US (lines 216-222), breakpoints in
\* tenths: pm02 in (lo, hi] maps onto the index range alo .. ahi
Bands ==
  << [lo |-> 0, hi |-> 120, alo |-> 0, ahi |-> 50],
     [lo |-> 120, hi |-> 354, alo |-> 50, ahi |-> 100],
     [lo |-> 354, hi |-> 554, alo |-> 100, ahi |-> 150],
     [lo |-> 554, hi |-> 1504, alo |-> 150, ahi |-> 200],
     [lo |-> 1504, hi |-> 2504, alo |-> 200, ahi |-> 300],
     [lo |-> 2504, hi |-> 3504, alo |-> 300, ahi |-> 400],
     [lo |-> 3504, hi |-> 5004, alo |-> 400, ahi |-> 500] >>

\* the band the if-chain selects for pm02, 0 when it falls through to the
\* final else
BandOf(pm02) ==
  IF \E k \in DOMAIN Bands : 10 * pm02 <= Bands[k].hi
    THEN CHOOSE k \in DOMAIN Bands :
           /\ 10 * pm02 <= Bands[k].hi
           /\ \A j \in 1 .. (k - 1) : 10 * pm02 > Bands[j].hi
    ELSE 0

\* the interpolation rounded to the nearest integer instead of truncated
PM_TO_AQI_US_Rounded(pm02) ==
  IF BandOf(pm02) = 0 THEN 500
  ELSE LET b == Bands[BandOf(pm02)]
           N == (b.ahi - b.alo) * (10 * pm02 - b.lo)
           D == b.hi - b.lo
       IN TruncDiv(2 * N + D, 2 * D) + b.alo

\* the third band interpolated from the second band's index base
PM_TO_AQI_US_WrongBase(pm02) ==
  IF BandOf(pm02) = 0 THEN 500
  ELSE LET b == Bands[BandOf(pm02)]
           N == (b.ahi - b.alo) * (10 * pm02 - b.lo)
           D == b.hi - b.lo
       IN TruncDiv(N, D) + (IF BandOf(pm02) = 3 THEN 50 ELSE b.alo)

\* PM_TO_AQI_US: the breakpoints are compared and interpolated in tenths so
\* that the arithmetic is exact; the result is truncated as the int return
\* does.  (Agrees with the double computation on every int in -50..1200.)
PM_TO_AQI_US(pm02) ==
  IF 10 * pm02 <= 120 THEN TruncDiv(50 * pm02, 12)
  ELSE IF 10 * pm02 <= 354 THEN TruncDiv(500 * (pm02 - 12), 234) + 50
  ELSE IF 10 * pm02 <= 554 THEN TruncDiv(50 * (10 * pm02 - 354), 200) + 100
  ELSE IF 10 * pm02 <= 1504 THEN TruncDiv(50 * (10 * pm02 - 554), 950) + 150
  ELSE IF 10 * pm02 <= 2504 THEN TruncDiv(100 * (10 * pm02 - 1504), 1000) + 200
  ELSE IF 10 * pm02 <= 3504 THEN TruncDiv(100 * (10 * pm02 - 2504), 1000) + 300
  ELSE IF 10 * pm02 <= 5004 THEN TruncDiv(100 * (10 * pm02 - 3504), 1500) + 400
  ELSE 500

\* (actualTemp * 9 / 5) + 32 on hundredths (inputs are multiples of 0.05)
ToFahrenheitIntDiv(h) == h * (9 \div 5) + 3200
ToFahrenheit(h) == TruncDiv(h * 9, 5) + 3200

\* String(int)
IntStr(n) == ToString(n)

\* String(float): two decimal places
FloatStr(h) ==
  LET a == IF h < 0 THEN -h ELSE h
      frac == a % 100
  IN (IF h < 0 THEN "-" ELSE "") \o ToString(a \div 100) \o "."
       \o (IF frac < 10 THEN "0" ELSE "") \o ToString(frac)

\* Point::addField
addField(f, name, value) ==
  [n \in DOMAIN f \cup {name} |-> IF n = name THEN value ELSE f[n]]

NoFields == [n \in {} |-> 0]

\* Point::clearFields
clearFieldsKeep(f) == f
clearFields(f) == NoFields

\* an entry of the call history
Ev(op, cap, v, w, l1, l2) ==
  [op |-> op, cap |-> cap, v |-> v, w |-> w, l1 |-> l1, l2 |-> l2]

Call(op, cap, v) == Ev(op, cap, v, 0, "", "")

\* showTextRectangle: the display driver calls it issues
RenderOps(small) ==
  {"clear", "setTextAlignment", IF small THEN "setFont16" ELSE "setFont24",
   "drawString", "display"}

NoScreen == [l1 |-> "", l2 |-> "", small |-> FALSE]

NoLast == [names |-> {}, ok |-> "none", cycles |-> FALSE]

----------------------------------------------------------------------------
(* Initial state: the sketch as flashed, before setup() runs *)

Init ==
  /\ hasPM \in BOOLEAN /\ hasCO2 \in BOOLEAN
  /\ hasSHT \in BOOLEAN /\ hasTVOC \in BOOLEAN
  /\ inUSaqi \in BOOLEAN /\ inF \in BOOLEAN
  /\ tempOffsetC \in TempOffsets
  /\ connectWIFI \in BOOLEAN /\ displayData \in BOOLEAN
  /\ pc = "setup"
  /\ fields = NoFields
  /\ displayOn = FALSE
  /\ dispOps = {}
  /\ screen = NoScreen
  /\ trace = <<>>
  /\ written = <<>>
  /\ last = NoLast

----------------------------------------------------------------------------
(* showTextRectangle(ln1, ln2, small), lines 186-197 *)

showTextRectangle(ln1, ln2, small) ==
  /\ dispOps' = dispOps \cup RenderOps(small)
  /\ screen' = [l1 |-> ln1, l2 |-> ln2, small |-> small]

Rendered(cap, ln1, ln2) == Ev("render", cap, 0, 0, ln1, ln2)

----------------------------------------------------------------------------
(* setup(), lines 73-114 *)

\* lines 74-97: display init, startup banner, sensor driver init
Setup ==
  /\ pc = "setup"
  /\ displayOn' = TRUE
  /\ showTextRectangle("Init", "chipid", TRUE)
  /\ trace' = <<Rendered("banner", "Init", "chipid")>>
           \o (IF hasTVOC THEN <<Call("init", "TVOC", 0)>> ELSE <<>>)
           \o (IF hasPM THEN <<Call("init", "PM", 0)>> ELSE <<>>)
           \o (IF hasCO2 THEN <<Call("init", "CO2", 0)>> ELSE <<>>)
           \o (IF hasSHT THEN <<Call("init", "SHT", 0)>> ELSE <<>>)
  /\ pc' = "wifi"
  /\ UNCHANGED <<config, fields, written, last>>

\* where connectToWifi leaves the sketch: it returns after a join, and
\* goes on to log, wait and restart after a timeout (line 205)
JoinNextPcIgnoreTimeout(ok) == "settle"
JoinNextPc(ok) == IF ok THEN "settle" ELSE "wifi_failed"

\* line 99 and connectToWifi lines 200-205: the join, bounded by its timeout
ConnectToWifi ==
  /\ pc = "wifi"
  /\ IF connectWIFI
       THEN \E ok \in BOOLEAN :
              /\ trace' = Append(trace, Call("join", "", IF ok THEN 1 ELSE 0))
              /\ pc' = JoinNextPc(ok)
       ELSE /\ pc' = "settle"
            /\ UNCHANGED trace
  /\ UNCHANGED <<config, fields, displayOn, dispOps, screen, written, last>>

\* line 206
WifiFailLog ==
  /\ pc = "wifi_failed"
  /\ trace' = Append(trace, Call("log", "failed to connect and hit timeout", 0))
  /\ pc' = "wifi_grace"
  /\ UNCHANGED <<config, fields, displayOn, dispOps, screen, written, last>>

\* line 207
WifiGraceDelay ==
  /\ pc = "wifi_grace"
  /\ trace' = Append(trace, Call("delay", "", GraceDelayMs))
  /\ pc' = "wifi_restart"
  /\ UNCHANGED <<config, fields, displayOn, dispOps, screen, written, last>>

\* lines 208-209: ESP.restart(); the sketch starts over at setup() with its
\* globals re-initialised, the display keeps what it shows until init
Restart ==
  /\ pc = "wifi_restart"
  /\ trace' = Append(trace, Call("restart", "", 0))
  /\ pc' = "setup"
  /\ fields' = NoFields
  /\ written' = <<>>
  /\ last' = NoLast
  /\ UNCHANGED <<config, displayOn, dispOps, screen>>

\* lines 100-104: settle delay and time synchronisation
TimeSync ==
  /\ pc = "settle"
  /\ trace' = trace \o <<Call("delay", "", SettleDelayMs), Call("timeSync", "", 0)>>
  /\ pc' = "validate"
  /\ UNCHANGED <<config, fields, displayOn, dispOps, screen, written, last>>

\* where setup() goes after validateConnection (lines 106-113)
ValidateNextPcIgnoreFailure(ok) == "loop"
ValidateNextPc(ok) == IF ok THEN "loop" ELSE "halted"

\* lines 106-111: influxDbClient.validateConnection() and its log line
ValidateConnection ==
  /\ pc = "validate"
  /\ \E ok \in BOOLEAN :
       /\ trace' = trace \o <<Call("validate", "", IF ok THEN 1 ELSE 0),
                              Call("log", IF ok THEN "Connected to InfluxDB: "
                                          ELSE "InfluxDB connection failed: ", 0)>>
       /\ pc' = ValidateNextPc(ok)
  /\ UNCHANGED <<config, fields, displayOn, dispOps, screen, written, last>>

\* line 112: while(true) {}
Halted ==
  /\ pc = "halted"
  /\ UNCHANGED vars

----------------------------------------------------------------------------
(* loop(), lines 116-183 *)

\* line 124: SGP.measure(false), the SGP30 measurement, taken first
SGPMeasureSkipped(t) == t
SGPMeasure(t) == IF hasTVOC THEN Append(t, Call("measure", "TVOC", 0)) ELSE t

\* lines 118-124: display off when not displaying, clear the point, measure
LoopBegin ==
  /\ pc = "loop"
  /\ displayOn' = IF ~displayData THEN FALSE ELSE displayOn
  /\ dispOps' = IF ~displayData THEN dispOps \cup {"displayOff"} ELSE dispOps
  /\ fields' = clearFields(fields)
  /\ trace' = SGPMeasure(<<Call("clearFields", "", 0)>>)
  /\ written' = <<>>
  /\ pc' = "pm"
  /\ UNCHANGED <<config, screen, last>>

\* lines 128-129: both the raw value and the index are recorded, whatever
\* the display unit
PMFieldsByUnit(f, PM2) ==
  IF inUSaqi THEN addField(f, "aqi", PM_TO_AQI_US(PM2))
             ELSE addField(f, "pm2", PM2)
PMFields(f, PM2) ==
  addField(addField(f, "pm2", PM2), "aqi", PM_TO_AQI_US(PM2))

\* lines 126-135: particulate matter
ReadPM ==
  /\ pc = "pm"
  /\ IF hasPM
       THEN \E PM2 \in PMReadings :
              /\ fields' = PMFields(fields, PM2)
              /\ IF inUSaqi
                   THEN /\ showTextRectangle("AQI", IntStr(PM_TO_AQI_US(PM2)), FALSE)
                        /\ trace' = trace \o
                             <<Call("read", "PM", PM2),
                               Rendered("PM", "AQI", IntStr(PM_TO_AQI_US(PM2)))>>
                   ELSE /\ showTextRectangle("PM2", IntStr(PM2), FALSE)
                        /\ trace' = trace \o
                             <<Call("read", "PM", PM2),
                               Rendered("PM", "PM2", IntStr(PM2))>>
              /\ pc' = "pm_delay"
       ELSE /\ pc' = "co2"
            /\ UNCHANGED <<fields, dispOps, screen, trace>>
  /\ UNCHANGED <<config, displayOn, written, last>>

\* line 137
DelayPM ==
  /\ pc = "pm_delay"
  /\ trace' = Append(trace, Call("delay", "PM", PerReadingDelayMs))
  /\ pc' = "co2"
  /\ UNCHANGED <<config, fields, displayOn, dispOps, screen, written, last>>

\* line 144: error codes (-1) are not recorded
Co2FieldNonNegative(f, CO2) == IF CO2 >= 0 THEN addField(f, "co2", CO2) ELSE f
Co2FieldUnchecked(f, CO2) == addField(f, "co2", CO2)
Co2Field(f, CO2) == IF CO2 > 0 THEN addField(f, "co2", CO2) ELSE f

\* lines 141-145: carbon dioxide
ReadCO2 ==
  /\ pc = "co2"
  /\ IF hasCO2
       THEN \E CO2 \in CO2Readings :
              /\ fields' = Co2Field(fields, CO2)
              /\ showTextRectangle("CO2", IntStr(CO2), FALSE)
              /\ trace' = trace \o <<Call("read", "CO2", CO2),
                                     Rendered("CO2", "CO2", IntStr(CO2))>>
              /\ pc' = "co2_delay"
       ELSE /\ pc' = "sht"
            /\ UNCHANGED <<fields, dispOps, screen, trace>>
  /\ UNCHANGED <<config, displayOn, written, last>>

\* line 146
DelayCO2Missing ==
  /\ pc = "co2_delay"
  /\ pc' = "sht"
  /\ UNCHANGED <<config, fields, displayOn, dispOps, screen, trace, written, last>>

DelayCO2 ==
  /\ pc = "co2_delay"
  /\ trace' = Append(trace, Call("delay", "CO2", PerReadingDelayMs))
  /\ pc' = "sht"
  /\ UNCHANGED <<config, fields, displayOn, dispOps, screen, written, last>>

\* line 151: float actualTemp = result.t + tempOffsetC
ActualTempRaw(t) == t
ActualTemp(t) == t + tempOffsetC

\* lines 149-159: temperature and humidity
ReadSHT ==
  /\ pc = "sht"
  /\ IF hasSHT
       THEN \E t \in TempReadings, rh \in RhReadings :
              LET actualTemp == ActualTemp(t)
                  ln1 == IF inF THEN FloatStr(ToFahrenheit(actualTemp))
                                ELSE FloatStr(actualTemp)
                  ln2 == FloatStr(rh) \o "%"
              IN /\ fields' = addField(addField(fields, "temp", actualTemp),
                                       "rhum", rh)
                 /\ showTextRectangle(ln1, ln2, FALSE)
                 /\ trace' = trace \o <<Ev("read", "SHT", t, rh, "", ""),
                                        Rendered("SHT", ln1, ln2)>>
                 /\ pc' = "sht_delay"
       ELSE /\ pc' = "tvoc"
            /\ UNCHANGED <<fields, dispOps, screen, trace>>
  /\ UNCHANGED <<config, displayOn, written, last>>

\* line 161
DelaySHT ==
  /\ pc = "sht_delay"
  /\ trace' = Append(trace, Call("delay", "SHT", PerReadingDelayMs))
  /\ pc' = "tvoc"
  /\ UNCHANGED <<config, fields, displayOn, dispOps, screen, written, last>>

\* lines 164-167: volatile organic compounds, the value measured at line 124
ReadTVOC ==
  /\ pc = "tvoc"
  /\ IF hasTVOC
       THEN \E TVOC \in TVOCReadings :
              /\ fields' = addField(fields, "tvoc", TVOC)
              /\ showTextRectangle("TVOC", IntStr(TVOC), FALSE)
              /\ trace' = trace \o <<Call("read", "TVOC", TVOC),
                                     Rendered("TVOC", "TVOC", IntStr(TVOC))>>
              /\ pc' = "tvoc_delay"
       ELSE /\ pc' = "send"
            /\ UNCHANGED <<fields, dispOps, screen, trace>>
  /\ UNCHANGED <<config, displayOn, written, last>>

\* line 168
DelayTVOC ==
  /\ pc = "tvoc_delay"
  /\ trace' = Append(trace, Call("delay", "TVOC", PerReadingDelayMs))
  /\ pc' = "send"
  /\ UNCHANGED <<config, fields, displayOn, dispOps, screen, written, last>>

\* what loop() leaves behind when it returns
CycleOutcome(ok) == [names |-> DOMAIN fields, ok |-> ok, cycles |-> TRUE]

\* where loop() goes after writePoint (line 177)
WriteNextPcHalt(ok) == IF ok THEN "sleep" ELSE "halted"
WriteNextPcReconnect(ok) == IF ok THEN "sleep" ELSE "wifi"
WriteNextPcRetry(ok) == IF ok THEN "sleep" ELSE "send"
WriteNextPc(ok) == IF ok THEN "sleep" ELSE "write_failed"

\* lines 172-177: log the line protocol and write the point; without
\* networking loop() returns here
Send ==
  /\ pc = "send"
  /\ IF connectWIFI
       THEN \E ok \in BOOLEAN :
              /\ trace' = trace \o <<Call("log", "Writing: ", 0),
                                     Call("submit", "", IF ok THEN 1 ELSE 0)>>
              /\ written' = Append(written, fields)
              /\ pc' = WriteNextPc(ok)
              /\ UNCHANGED last
       ELSE /\ pc' = "loop"
            /\ last' = CycleOutcome("none")
            /\ UNCHANGED <<trace, written>>
  /\ UNCHANGED <<config, fields, displayOn, dispOps, screen>>

\* lines 178-179
WriteFailLog ==
  /\ pc = "write_failed"
  /\ trace' = Append(trace, Call("log", "InfluxDB write failed: ", 0))
  /\ pc' = "sleep"
  /\ UNCHANGED <<config, fields, displayOn, dispOps, screen, written, last>>

\* line 181: the end-of-cycle sleep, then loop() returns
Sleep ==
  /\ pc = "sleep"
  /\ trace' = Append(trace, Call("delay", "", SleepDelayMs))
  /\ last' = CycleOutcome(IF trace[Len(trace)].op = "submit" THEN "ok" ELSE "failed")
  /\ pc' = "loop"
  /\ UNCHANGED <<config, fields, displayOn, dispOps, screen, written>>

----------------------------------------------------------------------------

Next ==
  \/ Setup \/ ConnectToWifi \/ WifiFailLog \/ WifiGraceDelay \/ Restart
  \/ TimeSync \/ ValidateConnection \/ Halted
  \/ LoopBegin \/ ReadPM \/ DelayPM \/ ReadCO2 \/ DelayCO2
  \/ ReadSHT \/ DelaySHT \/ ReadTVOC \/ DelayTVOC
  \/ Send \/ WriteFailLog \/ Sleep

Spec == Init /\ [][Next]_vars

TypeOK ==
  /\ pc \in {"setup", "wifi", "wifi_failed", "wifi_grace", "wifi_restart",
             "settle", "validate", "halted", "loop", "pm", "pm_delay", "co2",
             "co2_delay", "sht", "sht_delay", "tvoc", "tvoc_delay", "send",
             "write_failed", "sleep"}
  /\ DOMAIN fields \subseteq {"pm2", "aqi", "co2", "temp", "rhum", "tvoc"}
  /\ displayOn \in BOOLEAN
  /\ Len(written) <= 1

----------------------------------------------------------------------------
(* Reading the call history *)

\* trace holds the calls of the loop() invocation in progress or just ended
InCycle == trace # <<>> /\ trace[1].op = "clearFields"

\* loop() has returned and has not been entered again
CycleDone == pc = "loop" /\ InCycle

At(op, cap) == {i \in DOMAIN trace : trace[i].op = op /\ trace[i].cap = cap}

Ops(op) == {i \in DOMAIN trace : trace[i].op = op}

CapOrder == <<"PM", "CO2", "SHT", "TVOC">>

Active(c) ==
  CASE c = "PM" -> hasPM
    [] c = "CO2" -> hasCO2
    [] c = "SHT" -> hasSHT
    [] c = "TVOC" -> hasTVOC

IsPrefix(s, t) == Len(s) <= Len(t) /\ SubSeq(t, 1, Len(s)) = s

OpCap(s) == [i \in DOMAIN s |-> <<s[i].op, s[i].cap>>]

IsCapEvent(e) ==
  e.op \in {"read", "render", "delay"} /\ e.cap \in {"PM", "CO2", "SHT", "TVOC"}

\* the read, render and delay calls made for the capabilities, in call order
CapEvents == OpCap(SelectSeq(trace, IsCapEvent))

\* what the fixed order prescribes from the k-th capability on
RECURSIVE ExpectedFrom(_)
ExpectedFrom(k) ==
  IF k > Len(CapOrder) THEN <<>>
  ELSE (IF Active(CapOrder[k])
          THEN << <<"read", CapOrder[k]>>, <<"render", CapOrder[k]>>,
                  <<"delay", CapOrder[k]>> >>
          ELSE <<>>) \o ExpectedFrom(k + 1)

\* positions of loop() at which every capability has had its turn
AfterCaps == {"send", "write_failed", "sleep", "loop"}

\* positions of loop() after the call of writePoint
AfterSend == {"write_failed", "sleep", "loop"}

----------------------------------------------------------------------------
(* C1 *)

\* C1: in a cycle with CarbonDioxide active, a CO2 reading <= 0 leaves no
\* "co2" field in the record (the point, and the record handed to
\* writePoint), a reading > 0 leaves "co2" with that value, and in both
\* cases the reading is rendered exactly once with the raw value as the
\* second line.
C1_Co2SentinelNotRecordedButRendered ==
  InCycle =>
    \A i \in At("read", "CO2") :
      LET v == trace[i].v IN
        /\ hasCO2
        /\ Cardinality(At("render", "CO2")) = 1
        /\ \A j \in At("render", "CO2") :
             j = i + 1 /\ trace[j].l1 = "CO2" /\ trace[j].l2 = ToString(v)
        /\ v <= 0 => /\ "co2" \notin DOMAIN fields
                     /\ \A k \in DOMAIN written : "co2" \notin DOMAIN written[k]
        /\ v > 0 => /\ "co2" \in DOMAIN fields /\ fields["co2"] = v
                    /\ \A k \in DOMAIN written :
                         "co2" \in DOMAIN written[k] /\ written[k]["co2"] = v

\* a record was submitted in a cycle whose CO2 reading was -1, shown as "-1"
C1_Witness ==
  /\ CycleDone /\ Len(written) = 1
  /\ \E i \in At("read", "CO2") : trace[i].v = -1
  /\ \E j \in At("render", "CO2") : trace[j].l2 = "-1"
  /\ "co2" \notin DOMAIN written[1]

----------------------------------------------------------------------------
(* C2 *)

\* the field names the reads of this cycle give rise to
AddedThisCycle ==
  UNION { CASE trace[i].cap = "PM" -> {"pm2", "aqi"}
            [] trace[i].cap = "CO2" -> IF trace[i].v > 0 THEN {"co2"} ELSE {}
            [] trace[i].cap = "SHT" -> {"temp", "rhum"}
            [] trace[i].cap = "TVOC" -> {"tvoc"}
          : i \in Ops("read") }

\* C2: the record handed to writePoint holds exactly the fields added in the
\* same cycle; no field of an earlier cycle survives the clear at the start
\* of loop(), whatever the outcome of the earlier submission.
C2_RecordIsCycleScoped ==
  InCycle =>
    /\ DOMAIN fields = AddedThisCycle
    /\ \A k \in DOMAIN written : DOMAIN written[k] = AddedThisCycle

\* after a cycle that recorded "co2" and whose submission failed, a record
\* without "co2" is submitted
C2_Witness ==
  /\ pc = "sleep" /\ Len(written) = 1
  /\ last.cycles /\ last.ok = "failed" /\ "co2" \in last.names
  /\ hasCO2 /\ "co2" \notin DOMAIN written[1]

----------------------------------------------------------------------------
(* C3 *)

FailurePath == <<"log", "delay", "restart">>

\* C3: after a join that timed out the sketch logs, waits the grace delay
\* and restarts once, going back to setup(); nothing else is called in
\* between (no validation, no sensor read, no writePoint), and a restart
\* happens only this way.
C3_JoinTimeoutRestarts ==
  /\ Ops("restart") # {} => At("join", "") # {}
  /\ \A i \in At("join", "") :
       trace[i].v = 0 =>
         LET after == SubSeq(trace, i + 1, Len(trace)) IN
           /\ connectWIFI
           /\ Len(after) <= 3
           /\ \A k \in DOMAIN after : after[k].op = FailurePath[k]
           /\ Len(after) >= 2 => after[2].v = GraceDelayMs
           /\ pc = <<"wifi_failed", "wifi_grace", "wifi_restart", "setup">>[Len(after) + 1]
           /\ Cardinality(Ops("restart")) = (IF pc = "setup" THEN 1 ELSE 0)
           /\ Ops("validate") = {} /\ Ops("read") = {} /\ Ops("submit") = {}
           /\ written = <<>>

\* the device has restarted after a join timeout
C3_Witness ==
  /\ pc = "setup" /\ trace # <<>> /\ trace[Len(trace)].op = "restart"
  /\ \E i \in At("join", "") : trace[i].v = 0

----------------------------------------------------------------------------
(* C4 *)

ValidationFailed == \E i \in Ops("validate") : trace[i].v = 0

\* C4: a failed remote validation puts the sketch in the endless loop of
\* line 112, and nothing changes from then on: no sampling, no sensor read,
\* no writePoint, no restart.
C4_ValidationFailureHaltsForever ==
  [][ /\ ValidationFailed' => pc' = "halted"
      /\ pc = "halted" => pc' = "halted" /\ UNCHANGED vars
      /\ pc' = "halted" => ValidationFailed' ]_vars

\* halted after a successful join
C4_Witness ==
  /\ pc = "halted" /\ connectWIFI
  /\ \E i \in At("join", "") : trace[i].v = 1
  /\ ValidationFailed

----------------------------------------------------------------------------
(* C5 *)

\* C5: with networking enabled writePoint is called exactly once per cycle,
\* after every active capability has been read, rendered and delayed; a
\* failure is followed by its log line and the end-of-cycle sleep only,
\* then loop() returns: no second writePoint, no restart, no halt.
C5_SubmitOncePerCycle ==
  (connectWIFI /\ InCycle) =>
    IF pc \in AfterSend
      THEN /\ Cardinality(Ops("submit")) = 1
           /\ Len(written) = 1
           /\ \A s \in Ops("submit") :
                LET after == SubSeq(trace, s + 1, Len(trace))
                    failed == trace[s].v = 0
                    logged == IF failed THEN <<"log">> ELSE <<>>
                IN /\ CapEvents = ExpectedFrom(1)
                   /\ \A i \in DOMAIN trace : IsCapEvent(trace[i]) => i < s
                   /\ pc = "write_failed" => failed /\ after = <<>>
                   /\ pc = "sleep" => [k \in DOMAIN after |-> after[k].op] = logged
                   /\ pc = "loop" =>
                        /\ [k \in DOMAIN after |-> after[k].op] = logged \o <<"delay">>
                        /\ after[Len(after)].v = SleepDelayMs
      ELSE Ops("submit") = {} /\ written = <<>>

\* a cycle whose submission failed has ended with the sleep
C5_Witness ==
  /\ CycleDone /\ connectWIFI
  /\ \E s \in Ops("submit") : trace[s].v = 0
  /\ trace[Len(trace)] = Call("delay", "", SleepDelayMs)

----------------------------------------------------------------------------
(* C6 *)

\* C6: with networking disabled setup() goes straight to the first cycle:
\* no join, no remote validation (so no halt), and writePoint is never
\* called.
C6_NoNetworkingNoValidation ==
  ~connectWIFI =>
    /\ Ops("join") = {}
    /\ Ops("validate") = {}
    /\ pc # "halted"
    /\ Ops("submit") = {} /\ written = <<>>

----------------------------------------------------------------------------
(* C7 *)

\* C7: every cycle ends with the end-of-cycle sleep: when loop() returns,
\* the last thing it did was the fixed sleep, with or without networking.
C7_EveryCycleEndsWithSleep ==
  CycleDone => trace[Len(trace)] = Call("delay", "", SleepDelayMs)

----------------------------------------------------------------------------
(* C8 *)

DrawingOps == {"clear", "setFont16", "setFont24", "drawString", "display"}

\* C8: with the display-enabled flag false no clear, set-font, draw-text or
\* flush call is ever issued to the display driver and the display is
\* powered off in every state.
C8_DisplayDisabledNoRendering ==
  ~displayData => dispOps \cap DrawingOps = {} /\ ~displayOn

----------------------------------------------------------------------------
(* C9 *)

FieldsOf(c) ==
  CASE c = "PM" -> {"pm2", "aqi"}
    [] c = "CO2" -> {"co2"}
    [] c = "SHT" -> {"temp", "rhum"}
    [] c = "TVOC" -> {"tvoc"}

ActiveCaps == {k \in DOMAIN CapOrder : Active(CapOrder[k])}

\* C9: the value reads, renders and per-reading delays of a cycle are those
\* of the active capabilities in the order PM, CO2, SHT, TVOC, one read, one
\* render and one delay each, the render right after the read and the delay
\* right after the render; an inactive capability has no driver call, no
\* field, no render and no delay, so a finished cycle has as many renders
\* and per-reading delays as active capabilities.
C9_FixedOrderOneRenderOneDelay ==
  InCycle =>
    /\ IsPrefix(CapEvents, ExpectedFrom(1))
    /\ pc \in AfterCaps =>
         /\ CapEvents = ExpectedFrom(1)
         /\ Cardinality(Ops("render")) = Cardinality(ActiveCaps)
         /\ Cardinality({i \in Ops("delay") : trace[i].v = PerReadingDelayMs
                                              /\ trace[i].cap # ""})
              = Cardinality(ActiveCaps)
    /\ \A i \in Ops("render") :
         /\ i > 1 /\ trace[i - 1].op = "read" /\ trace[i - 1].cap = trace[i].cap
         /\ i < Len(trace) =>
              trace[i + 1] = Call("delay", trace[i].cap, PerReadingDelayMs)
    /\ \A k \in DOMAIN CapOrder :
         ~Active(CapOrder[k]) =>
           /\ \A i \in DOMAIN trace : trace[i].cap # CapOrder[k]
           /\ FieldsOf(CapOrder[k]) \cap DOMAIN fields = {}

\* a finished cycle with three active capabilities and CO2 inactive
C9_Witness ==
  /\ CycleDone /\ hasPM /\ ~hasCO2 /\ hasSHT /\ hasTVOC
  /\ Cardinality(Ops("render")) = 3
  /\ At("delay", "PM") # {} /\ At("delay", "SHT") # {} /\ At("delay", "TVOC") # {}

----------------------------------------------------------------------------
(* C10 *)

IsDriverCall(e) == e.op \in {"read", "measure"}

DriverCalls(c) == {i \in DOMAIN trace : IsDriverCall(trace[i]) /\ trace[i].cap = c}

\* the render and the delay of every active capability before the k-th
\* are in the history before position i
EarlierCapsDone(k, i) ==
  \A e \in 1 .. (k - 1) :
    Active(CapOrder[e]) =>
      /\ \E j \in At("render", CapOrder[e]) : j < i
      /\ \E j \in At("delay", CapOrder[e]) : j < i

\* C10 as stated: each capability has a single driver call per cycle, made
\* after the render and delay of every earlier active capability.
C10_SingleDriverCallInOwnTurn ==
  InCycle =>
    \A k \in DOMAIN CapOrder :
      /\ Cardinality(DriverCalls(CapOrder[k])) <= 1
      /\ \A i \in DriverCalls(CapOrder[k]) : EarlierCapsDone(k, i)

\* C10 amended: PM, CO2 and SHT are each acquired by a single driver call in
\* their own turn; TVOC takes two driver calls, the measurement
\* (SGP.measure) at the start of the cycle, before the turn of any other
\* capability, and the fetch of the measured value (SGP.getTVOC) in its own
\* turn, after the render and delay of every earlier active capability.
C10_DriverCallsAmended ==
  InCycle =>
    /\ \A k \in DOMAIN CapOrder :
         /\ Cardinality(At("read", CapOrder[k])) <= 1
         /\ \A i \in At("read", CapOrder[k]) : EarlierCapsDone(k, i)
         /\ CapOrder[k] # "TVOC" => DriverCalls(CapOrder[k]) = At("read", CapOrder[k])
         /\ (pc \in AfterCaps /\ Active(CapOrder[k])) =>
              Cardinality(At("read", CapOrder[k])) = 1
    /\ At("measure", "TVOC") = (IF hasTVOC THEN {2} ELSE {})
    /\ DriverCalls("TVOC") = At("measure", "TVOC") \cup At("read", "TVOC")

\* a finished cycle in which the TVOC measurement preceded the PM read and
\* the TVOC value was fetched after the other capabilities' delays
C10_Witness ==
  /\ CycleDone /\ hasPM /\ hasCO2 /\ hasSHT /\ hasTVOC
  /\ At("measure", "TVOC") = {2}
  /\ \E i \in At("read", "PM") : i = 3
  /\ \E i \in At("read", "TVOC") : \E j \in At("delay", "SHT") : j < i

----------------------------------------------------------------------------
(* C11 *)

\* a cycle with PM and SHT only, no offset, Fahrenheit display, in which
\* PM read 40 and the temperature read 20.00 C, after its writePoint
Scenario11 ==
  /\ hasPM /\ hasSHT /\ ~hasCO2 /\ ~hasTVOC
  /\ tempOffsetC = 0 /\ inF
  /\ InCycle /\ pc \in AfterSend /\ Len(written) = 1
  /\ \E i \in At("read", "PM") : trace[i].v = 40
  /\ \E i \in At("read", "SHT") : trace[i].v = 2000

RecordOf(pm2, aqi, temp, rhum) ==
  [n \in {"pm2", "aqi", "temp", "rhum"} |->
     CASE n = "pm2" -> pm2 [] n = "aqi" -> aqi [] n = "temp" -> temp
       [] n = "rhum" -> rhum]

\* C11 as stated: in that scenario the temperature render shows "68" on
\* line 1 and the submitted record is exactly pm2 = 40, aqi = 104,
\* temp = 20, rhum = the humidity reading.
C11_EndToEndAsStated ==
  Scenario11 =>
    \A i \in At("read", "SHT") :
      /\ \A j \in At("render", "SHT") : trace[j].l1 = "68"
      /\ written[1] = RecordOf(40, 104, 2000, trace[i].w)

\* C11 amended: in that scenario the temperature render shows "68.00" on
\* line 1 (String(float) keeps two decimals) and the submitted record is
\* exactly pm2 = 40, aqi = 111, temp = 20.00, rhum = the humidity reading:
\* 40 lies in the band (35.4, 55.4], where 100 + 50/20 * (40 - 35.4) = 111.5
\* truncates to 111.
C11_EndToEndAmended ==
  Scenario11 =>
    \A i \in At("read", "SHT") :
      /\ At("render", "SHT") = {i + 1}
      /\ trace[i + 1].l1 = "68.00"
      /\ written[1] = RecordOf(40, 111, 2000, trace[i].w)

\* the scenario has happened and its cycle has ended
C11_Witness ==
  /\ Scenario11 /\ pc = "loop"
  /\ written[1]["aqi"] = 111 /\ written[1]["temp"] = 2000
  /\ screen.l1 = "68.00"

----------------------------------------------------------------------------
(* PM_TO_AQI_US on its own: every integer concentration 0 .. MaxPM *)

MaxPM == 510

InitAQI ==
  /\ hasPM = TRUE /\ hasCO2 = FALSE /\ hasSHT = FALSE /\ hasTVOC = FALSE
  /\ inUSaqi = TRUE /\ inF = FALSE /\ tempOffsetC = 0
  /\ connectWIFI = FALSE /\ displayData = TRUE
  /\ pc = "aqi_in"
  /\ fields \in {addField(NoFields, "pm2", PM2) : PM2 \in 0 .. MaxPM}
  /\ displayOn = FALSE
  /\ dispOps = {}
  /\ screen = NoScreen
  /\ trace = <<>>
  /\ written = <<>>
  /\ last = NoLast

\* line 129: the index of the concentration just recorded
ApplyAQI ==
  /\ pc = "aqi_in"
  /\ fields' = addField(fields, "aqi", PM_TO_AQI_US(fields["pm2"]))
  /\ pc' = "aqi_out"
  /\ UNCHANGED <<config, displayOn, dispOps, screen, trace, written, last>>

NextAQI == ApplyAQI

SpecAQI == InitAQI /\ [][NextAQI]_vars

----------------------------------------------------------------------------
(* C12 *)

\* r is the interpolation of band k at pm02, truncated: r <= exact < r + 1,
\* stated on the cross-multiplied fractions
IsTruncatedInterpolation(k, pm02, r) ==
  LET b == Bands[k]
      N == (b.ahi - b.alo) * (10 * pm02 - b.lo)
      D == b.hi - b.lo
  IN (r - b.alo) * D <= N /\ N < (r - b.alo + 1) * D

\* C12: PM_TO_AQI_US on integers: 0..11 give a result in [0, 50), 12 gives
\* exactly 50, everything above 500 gives exactly 500, and every result in a
\* band is that band's linear interpolation truncated to an integer.
C12_AqiTruncatedAndClamped ==
  pc = "aqi_out" =>
    LET pm02 == fields["pm2"]
        r == fields["aqi"]
    IN /\ pm02 \in 0 .. 11 => 0 <= r /\ r < 50
       /\ pm02 = 12 => r = 50
       /\ pm02 > 500 => r = 500
       /\ BandOf(pm02) # 0 => IsTruncatedInterpolation(BandOf(pm02), pm02, r)
       /\ BandOf(pm02) = 0 => r = 500

\* 40 has the exact interpolation 111.5 and yields 111
C12_Witness ==
  pc = "aqi_out" /\ fields["pm2"] = 40 /\ fields["aqi"] = 111

----------------------------------------------------------------------------
(* C13 *)

\* C13 as stated: an integer of the first band lands in [0, 50], an integer
\* of a later band lands in the half-open index range (alo, ahi] of its
\* band, so 13, 36, 56, 151, 251 and 351 land strictly above alo.
C13_BandRangesAsStated ==
  pc = "aqi_out" =>
    LET pm02 == fields["pm2"]
        r == fields["aqi"]
        k == BandOf(pm02)
    IN k # 0 =>
         /\ r <= Bands[k].ahi
         /\ IF k = 1 THEN 0 <= r ELSE Bands[k].alo < r

\* C13 amended: an integer of a band lands in the closed index range
\* [alo, ahi] of its band; 13 and 36 land strictly above the lower bound
\* (52 and 101), while 56, 151, 251 and 351 land exactly on the lower bound
\* of their band (150, 200, 300, 400), the fraction being truncated.
C13_BandRangesAmended ==
  pc = "aqi_out" =>
    LET pm02 == fields["pm2"]
        r == fields["aqi"]
        k == BandOf(pm02)
    IN /\ k # 0 => Bands[k].alo <= r /\ r <= Bands[k].ahi
       /\ pm02 = 13 => r = 52
       /\ pm02 = 36 => r = 101
       /\ pm02 = 56 => r = 150
       /\ pm02 = 151 => r = 200
       /\ pm02 = 251 => r = 300
       /\ pm02 = 351 => r = 400

\* 56, the first integer of the fourth band, yields the band's lower bound
C13_Witness ==
  pc = "aqi_out" /\ fields["pm2"] = 56 /\ fields["aqi"] = 150

----------------------------------------------------------------------------
(* C14 *)

\* the reads of this cycle that returned an Invalid reading: only CO2 has a
\* validity rule, CO2 <= 0
InvalidReads == {i \in At("read", "CO2") : trace[i].v <= 0}

NotRecorded(name) ==
  /\ name \notin DOMAIN fields
  /\ \A k \in DOMAIN written : name \notin DOMAIN written[k]

\* C14 as stated: an Invalid reading is never written into the record and
\* no render of its capability shows its numeric value.
C14_InvalidNeverRecordedNorShown ==
  InCycle =>
    \A i \in InvalidReads :
      /\ NotRecorded("co2")
      /\ \A j \in At("render", "CO2") :
           trace[j].l1 # ToString(trace[i].v) /\ trace[j].l2 # ToString(trace[i].v)

\* C14 amended: an Invalid reading is never written into the record; it is
\* nevertheless presented: the render of its capability, issued right after
\* the read, shows its raw numeric value on the second line.
C14_InvalidNeverRecordedButShown ==
  InCycle =>
    \A i \in InvalidReads :
      /\ NotRecorded("co2")
      /\ At("render", "CO2") = {i + 1}
      /\ trace[i + 1].l1 = "CO2"
      /\ trace[i + 1].l2 = ToString(trace[i].v)

\* a record without "co2" was submitted in a cycle that read CO2 = 0 and
\* showed "0"
C14_Witness ==
  /\ InCycle /\ pc \in AfterSend /\ Len(written) = 1
  /\ \E i \in InvalidReads : trace[i].v = 0 /\ trace[i + 1].l2 = "0"
  /\ "co2" \notin DOMAIN written[1]

----------------------------------------------------------------------------
(* C15 *)

\* the positions of loop(); "loop" is reached when setup() has returned
LoopPcs == {"loop", "pm", "pm_delay", "co2", "co2_delay", "sht", "sht_delay",
            "tvoc", "tvoc_delay", "send", "write_failed", "sleep"}

\* the calls a step adds to the history (the whole history when the step
\* starts a new cycle)
NewCalls ==
  IF IsPrefix(trace, trace')
    THEN SubSeq(trace', Len(trace) + 1, Len(trace'))
    ELSE trace'

StartupOps == {"join", "timeSync", "validate", "restart"}

\* a step taken inside loop() stays inside loop() and makes no startup call
StaysInLoop ==
  pc \in LoopPcs =>
    /\ pc' \in LoopPcs
    /\ \A k \in DOMAIN NewCalls : NewCalls[k].op \notin StartupOps

\* C15: once loop() has been entered the sketch stays in loop(): no step
\* calls the join, the time sync or the remote validation again, none
\* restarts the device and none halts it, whatever is read and whatever
\* writePoint returns.
C15_ConnectivityOnlyAtStartup == [][StaysInLoop]_vars

\* sampling again after a cycle whose submission failed
C15_Witness ==
  /\ pc = "pm" /\ connectWIFI
  /\ last.cycles /\ last.ok = "failed"
  /\ InCycle /\ Ops("join") = {} /\ Ops("validate") = {}

----------------------------------------------------------------------------
(* C16 *)

\* the sketch is the only flow of control and every call it makes returns:
\* a step that can be taken is eventually taken
FairSpec == Spec /\ WF_vars(Next)

\* C16: once loop() has been entered, the sketch reaches the reporting step
\* and then the start of the next cycle, again and again, whatever is read
\* and whatever writePoint returns; the endless loop after a failed
\* validation is the only position that cannot be left.
C16_LoopNeverTerminates ==
  /\ (pc \in LoopPcs) ~> (pc = "send")
  /\ (pc = "send") ~> (pc = "loop")
  /\ [](ENABLED <<Next>>_vars <=> pc # "halted")

\* the reporting step of a cycle that follows a completed cycle
C16_Witness ==
  /\ pc = "send" /\ InCycle /\ last.cycles

----------------------------------------------------------------------------
(* C17 *)

\* C17: for every temperature reading the "temp" field is raw + tempOffsetC
\* in Celsius, with or without the Fahrenheit flag, and the first line of
\* the render is that same adjusted value, converted with c * 9 / 5 + 32
\* when the flag is set; with a non-zero offset the raw temperature is
\* neither recorded nor rendered.
C17_OffsetAppliedBeforeUse ==
  InCycle =>
    \A i \in At("read", "SHT") :
      LET raw == trace[i].v
          adj == raw + tempOffsetC
          shown == IF inF THEN (adj * 9) \div 5 + 3200 ELSE adj
          rawShown == IF inF THEN (raw * 9) \div 5 + 3200 ELSE raw
      IN /\ "temp" \in DOMAIN fields /\ fields["temp"] = adj
         /\ \A k \in DOMAIN written : written[k]["temp"] = adj
         /\ At("render", "SHT") = {i + 1}
         /\ trace[i + 1].l1 = FloatStr(shown)
         /\ tempOffsetC # 0 =>
              /\ fields["temp"] # raw
              /\ trace[i + 1].l1 # FloatStr(rawShown)

\* 20.00 C read with an offset of -1.50 C and the Fahrenheit flag: 18.50 C
\* recorded and submitted, 65.30 shown
C17_Witness ==
  /\ InCycle /\ pc \in AfterSend /\ Len(written) = 1
  /\ tempOffsetC = -150 /\ inF
  /\ \E i \in At("read", "SHT") : trace[i].v = 2000 /\ trace[i + 1].l1 = "65.30"
  /\ written[1]["temp"] = 1850

----------------------------------------------------------------------------
(* C18 *)

\* the value the read of capability c returned in this cycle
ReadValue(c) == trace[CHOOSE i \in At("read", c) : TRUE]

\* the record fixed by the active capabilities, tempOffsetC and the readings
\* of this cycle alone: inUSaqi, inF and displayData do not occur in it
RecordFromReadings ==
  [n \in AddedThisCycle |->
     CASE n = "pm2" -> ReadValue("PM").v
       [] n = "aqi" -> PM_TO_AQI_US(ReadValue("PM").v)
       [] n = "co2" -> ReadValue("CO2").v
       [] n = "temp" -> ReadValue("SHT").v + tempOffsetC
       [] n = "rhum" -> ReadValue("SHT").w
       [] n = "tvoc" -> ReadValue("TVOC").v]

\* C18: the record submitted in a cycle, and whether one is submitted, is a
\* function of the active capabilities, tempOffsetC, the networking flag
\* and the readings of the cycle only, so two runs that differ in inUSaqi,
\* inF and displayData alone submit identical records in every cycle; "aqi"
\* is recorded whenever "pm2" is and "temp" is the adjusted Celsius value.
C18_FlagsDoNotReachRecord ==
  InCycle =>
    /\ \A k \in DOMAIN written : written[k] = RecordFromReadings
    /\ pc \in AfterSend => Len(written) = (IF connectWIFI THEN 1 ELSE 0)
    /\ pc \in AfterCaps => fields = RecordFromReadings
    /\ ("aqi" \in DOMAIN fields) <=> ("pm2" \in DOMAIN fields)

\* with AQI and Fahrenheit display and the display disabled, the record
\* submitted holds the raw PM value with its index and the Celsius
\* temperature
C18_Witness ==
  /\ InCycle /\ pc \in AfterSend /\ Len(written) = 1
  /\ inUSaqi /\ inF /\ ~displayData /\ hasPM /\ hasSHT
  /\ written[1]["pm2"] = 40 /\ written[1]["aqi"] = 111
  /\ written[1]["temp"] = 2155 + tempOffsetC

====
